---------------------------- MODULE Spec2Model ----------------------------
(***************************************************************************)
(* Coupon system (coupon-system/internal/{models,repository,service,api}). *)
(*                                                                         *)
(* The persistent store is two tables: coupons (a sequence of rows, the    *)
(* row's ID is the uuid the service assigned to it) and coupon_usages (the *)
(* usage ledger, append-only).  Instants are integers; money amounts that  *)
(* enter the system are integer-valued float64 values, and the one         *)
(* computed amount, the discount, is a float64 value carried as a 53-bit   *)
(* significand and a binary exponent, rounded as IEEE 754 rounds it.       *)
(*                                                                         *)
(* Three specifications share the variables:                               *)
(*   Spec     concurrent RecordCouponUsage transactions (READ COMMITTED,   *)
(*            the database default gorm's Transaction runs under);         *)
(*   SpecSeq  the service's operations executed one after the other;       *)
(*   SpecFn   the pure functions of the models and matcher code applied to *)
(*            inputs drawn from bounded sets.                              *)
(* Store failures (a lost connection, a cancelled context) are not         *)
(* modelled: every query answers.                                          *)
(***************************************************************************)
EXTENDS Integers, Sequences, FiniteSets, Bags, TLC

VARIABLES coupons, ledger, now, last, tx

vars == <<coupons, ledger, now, last, tx>>

(***************************************************************************)
(* Bounds of the model.                                                    *)
(***************************************************************************)
\* instants are 0..MaxTime
MaxTime == 3
\* rows of the coupons table
MaxCoupons == 4
\* rows of the coupon_usages table
MaxLedger == 3
\* concurrent request handlers calling RecordCouponUsage
NProcs == 3
\* length of the restriction lists and of the cart in SpecFn
MaxList == 2

\* significand width of float64 (the type of every amount)
Prec == 53

Times == 0..MaxTime
Procs == 1..NProcs

(***************************************************************************)
(* models: UsageType, DiscountType                                         *)
(***************************************************************************)
OneTime == "one_time"
MultiUse == "multi_use"
TimeBased == "time_based"
PercentageDiscount == "percentage"
FixedDiscount == "fixed"

UsageTypes == {OneTime, MultiUse, TimeBased}
DiscountTypes == {PercentageDiscount, FixedDiscount}

(***************************************************************************)
(* models.Medicine and models.Category.  Name and Price of a medicine are  *)
(* read by no code and are left out.                                       *)
(***************************************************************************)
Medicine(id, category) == [ID |-> id, Category |-> category]
Category(id, name) == [ID |-> id, Name |-> name]

Paracetamol == Medicine("m1", "painkiller")
Amoxicillin == Medicine("m2", "antibiotic")
VitaminC == Medicine("m3", "vitamin")
\* a medicine whose category string is the ID of the painkiller category
Mislabelled == Medicine("m4", "c1")
Medicines == {Paracetamol, Amoxicillin, VitaminC, Mislabelled}

Painkiller == Category("c1", "painkiller")
Antibiotic == Category("c2", "antibiotic")
Categories == {Painkiller, Antibiotic}

\* *TimeWindow: <<>> is the nil pointer, <<w>> points to w
TimeWindow(start, end) == [StartTime |-> start, EndTime |-> end]
NoWindow == <<>>

(***************************************************************************)
(* float64, non-negative and in the normal range: zero, or a significand   *)
(* m of Prec bits (most significant first, m[1] = 1) and an exponent e,    *)
(* the value being m * 2^e.  The operations are those of IEEE 754 in       *)
(* round-to-nearest, ties-to-even: the exact result, rounded once.  Their  *)
(* operands here are naturals below 2^LimbBits times a float64, and        *)
(* quotients of naturals by a divisor of at most 2^7.                      *)
(***************************************************************************)
FZero == [m |-> <<>>, e |-> 0]

Zeros(k) == [i \in 1..k |-> 0]

\* the bit of weight 2^p in the bit string bits (most significant first)
BitAt(bits, p) == IF p >= 0 /\ p < Len(bits) THEN bits[Len(bits) - p] ELSE 0

\* bits + 1: <<carry out, the Len(bits) low bits>>
IncBits(bits) ==
    IF \A i \in 1..Len(bits) : bits[i] = 1 THEN <<1, Zeros(Len(bits))>>
    ELSE LET z == CHOOSE i \in 1..Len(bits) :
                     bits[i] = 0 /\ \A j \in (i + 1)..Len(bits) : bits[j] = 1
         IN <<0, [i \in 1..Len(bits) |->
                     IF i < z THEN bits[i] ELSE IF i = z THEN 1 ELSE 0]>>

\* round to nearest, ties to even: the float64 nearest to bits * 2^e, where
\* bits[1] = 1 and sticky says that a non-zero part below bits was cut off
RoundNearestEven(bits, e, sticky) ==
    LET n == Len(bits) IN
    IF n <= Prec THEN [m |-> bits \o Zeros(Prec - n), e |-> e - (Prec - n)]
    ELSE LET keep == SubSeq(bits, 1, Prec)
             roundBit == bits[Prec + 1]
             rest == sticky \/ \E i \in (Prec + 2)..n : bits[i] = 1
             up == roundBit = 1 /\ (rest \/ keep[Prec] = 1)
             inc == IncBits(keep)
         IN IF ~up THEN [m |-> keep, e |-> e + (n - Prec)]
            ELSE IF inc[1] = 1
                 THEN [m |-> <<1>> \o Zeros(Prec - 1), e |-> e + (n - Prec) + 1]
                 ELSE [m |-> inc[2], e |-> e + (n - Prec)]

\* 2^i mod d, for i <= 60
Pow2Mod(i, d) ==
    IF i <= 30 THEN (2 ^ i) % d ELSE (((2 ^ 30) % d) * ((2 ^ (i - 30)) % d)) % d

\* (a * 2^i) mod d: what long division of a by d has left after i bits below
\* the binary point
Rem(a, d, i) == ((a % d) * Pow2Mod(i, d)) % d

\* the bit of weight 2^j of the quotient a / d
QBit(a, d, j) ==
    IF j > 30 THEN 0
    ELSE IF j >= 0 THEN ((a \div d) \div (2 ^ j)) % 2
    ELSE (2 * Rem(a, d, (-j) - 1)) \div d

\* the weight of the leading bit of the quotient a / d, a > 0
TopBit(a, d) ==
    IF a \div d > 0
    THEN CHOOSE j \in 0..30 : QBit(a, d, j) = 1 /\ \A k \in (j + 1)..30 : QBit(a, d, k) = 0
    ELSE -(CHOOSE i \in 1..7 : QBit(a, d, -i) = 1 /\ \A k \in 1..(i - 1) : QBit(a, d, -k) = 0)

\* float64(a) / float64(b) for naturals a and b, 0 < b <= 2^7
FDiv(a, b) ==
    IF a = 0 THEN FZero
    ELSE LET top == TopBit(a, b)
             low == top - Prec
             bits == [i \in 1..(Prec + 1) |-> QBit(a, b, top - i + 1)]
         IN RoundNearestEven(bits, low, low < 0 /\ Rem(a, b, -low) # 0)

\* float64(n) for a natural n
FNat(n) == FDiv(n, 1)

\* the significand is multiplied limb by limb
LimbBits == 13
Limbs == 5

\* the value of limb j (LimbBits bits from weight 2^(LimbBits * j)) of bits
RECURSIVE LimbFrom(_, _, _)
LimbFrom(bits, j, t) ==
    IF t = LimbBits THEN 0
    ELSE BitAt(bits, LimbBits * j + t) * (2 ^ t) + LimbFrom(bits, j, t + 1)

\* the carry into limb j of bits * k
RECURSIVE MulCarry(_, _, _)
MulCarry(bits, k, j) ==
    IF j = 0 THEN 0
    ELSE (LimbFrom(bits, j - 1, 0) * k + MulCarry(bits, k, j - 1)) \div (2 ^ LimbBits)

\* limb j of bits * k; limb Limbs is the last carry
MulLimb(bits, k, j) ==
    IF j = Limbs THEN MulCarry(bits, k, Limbs)
    ELSE (LimbFrom(bits, j, 0) * k + MulCarry(bits, k, j)) % (2 ^ LimbBits)

\* the bit of weight 2^p of the number whose limbs are limb[0], limb[1], ...
LimbBit(limb, p) == (limb[p \div LimbBits] \div (2 ^ (p % LimbBits))) % 2

\* the weight of the leading bit of the positive number whose limbs are limb
LimbsTop(limb) ==
    CHOOSE p \in 0..(LimbBits * (Limbs + 1) - 1) :
        /\ LimbBit(limb, p) = 1
        /\ \A q \in (p + 1)..(LimbBits * (Limbs + 1) - 1) : LimbBit(limb, q) = 0

\* float64(k) * x for a natural k < 2^LimbBits and a float64 x.  (The sets
\* of one element bind a value that is used many times, so that it is
\* computed once.)
FMul(k, x) ==
    IF k = 0 \/ x = FZero THEN FZero
    ELSE CHOOSE r \in
            {RoundNearestEven(bits, x.e, FALSE) :
                bits \in {[i \in 1..(top + 1) |-> LimbBit(limb, top + 1 - i)] :
                    <<limb, top>> \in {<<l, LimbsTop(l)>> :
                        l \in {[j \in 0..Limbs |-> MulLimb(m, k, j)] : m \in {x.m}}}}} : TRUE

\* the next float64 above x
FSucc(x) ==
    LET inc == IncBits(x.m)
    IN IF inc[1] = 1 THEN [m |-> <<1>> \o Zeros(Prec - 1), e |-> x.e + 1]
       ELSE [m |-> inc[2], e |-> x.e]

\* x and y are at most k units in the last place apart
RECURSIVE WithinUlps(_, _, _)
WithinUlps(x, y, k) ==
    \/ x = y
    \/ /\ k > 0
       /\ x # FZero
       /\ y # FZero
       /\ \/ WithinUlps(FSucc(x), y, k - 1)
          \/ WithinUlps(x, FSucc(y), k - 1)

(***************************************************************************)
(* models.Coupon: IsValid and CalculateDiscount                            *)
(***************************************************************************)
IsValid_InclusiveMinimum(c, orderTotal, currentTime) ==
    IF ~c.IsActive THEN FALSE
    ELSE IF currentTime > c.ExpiryDate THEN FALSE
    ELSE IF orderTotal <= c.MinOrderValue THEN FALSE
    ELSE IF c.ValidTimeWindow # NoWindow
            /\ (\/ currentTime < c.ValidTimeWindow[1].StartTime
                \/ currentTime > c.ValidTimeWindow[1].EndTime)
         THEN FALSE
    ELSE TRUE

IsValid(c, orderTotal, currentTime) ==
    IF ~c.IsActive THEN FALSE
    ELSE IF currentTime > c.ExpiryDate THEN FALSE
    ELSE IF orderTotal < c.MinOrderValue THEN FALSE
    ELSE IF c.ValidTimeWindow # NoWindow
            /\ (\/ currentTime < c.ValidTimeWindow[1].StartTime
                \/ currentTime > c.ValidTimeWindow[1].EndTime)
         THEN FALSE
    ELSE TRUE

CalculateDiscount_Capped(c, orderTotal) ==
    IF c.DiscountType = PercentageDiscount
    THEN FMul(orderTotal, FDiv(c.DiscountValue, 100))
    ELSE IF c.DiscountValue > orderTotal THEN FNat(orderTotal)
         ELSE FNat(c.DiscountValue)

CalculateDiscount(c, orderTotal) ==
    IF c.DiscountType = PercentageDiscount
    THEN FMul(orderTotal, FDiv(c.DiscountValue, 100))
    ELSE FNat(c.DiscountValue)

(***************************************************************************)
(* isApplicableToCoupon: the service's copy and the repository's copy      *)
(***************************************************************************)
isApplicableToCoupon_CategoryByID(coupon, cartItems) ==
    IF Len(coupon.ApplicableMedicines) = 0 /\ Len(coupon.ApplicableCategories) = 0
    THEN TRUE
    ELSE \E i \in 1..Len(cartItems) :
            \/ \E j \in 1..Len(coupon.ApplicableMedicines) :
                  cartItems[i].ID = coupon.ApplicableMedicines[j].ID
            \/ \E j \in 1..Len(coupon.ApplicableCategories) :
                  cartItems[i].Category = coupon.ApplicableCategories[j].ID

isApplicableToCoupon_service(coupon, cartItems) ==
    IF Len(coupon.ApplicableMedicines) = 0 /\ Len(coupon.ApplicableCategories) = 0
    THEN TRUE
    ELSE \E i \in 1..Len(cartItems) :
            \/ \E j \in 1..Len(coupon.ApplicableMedicines) :
                  cartItems[i].ID = coupon.ApplicableMedicines[j].ID
            \/ \E j \in 1..Len(coupon.ApplicableCategories) :
                  cartItems[i].Category = coupon.ApplicableCategories[j].Name

isApplicableToCoupon_repository(coupon, cartItems) ==
    IF Len(coupon.ApplicableMedicines) = 0 /\ Len(coupon.ApplicableCategories) = 0
    THEN TRUE
    ELSE \E i \in 1..Len(cartItems) :
            \/ \E j \in 1..Len(coupon.ApplicableMedicines) :
                  cartItems[i].ID = coupon.ApplicableMedicines[j].ID
            \/ \E j \in 1..Len(coupon.ApplicableCategories) :
                  cartItems[i].Category = coupon.ApplicableCategories[j].Name

(***************************************************************************)
(* The coupon row.  TermsAndConditions and the gorm timestamps are read by *)
(* no code and are left out.                                               *)
(***************************************************************************)
Coupon(id, code, expiry, usageType, discountType, discountValue, minOrder, maxUsage, window, active, medicines, categories) ==
    [ID |-> id, Code |-> code, ExpiryDate |-> expiry, UsageType |-> usageType,
     DiscountType |-> discountType, DiscountValue |-> discountValue,
     MinOrderValue |-> minOrder, MaxUsagePerUser |-> maxUsage,
     ValidTimeWindow |-> window, IsActive |-> active,
     ApplicableMedicines |-> medicines, ApplicableCategories |-> categories]

\* sequences over S of length at most n
SeqsUpTo(S, n) == UNION {[1..k -> S] : k \in 0..n}

Windows == {NoWindow} \cup {<<TimeWindow(s, e)>> : s \in Times, e \in Times}

NoOp == [op |-> "none", arg |-> <<>>, out |-> <<>>]
Idle == [pc |-> "idle", usage |-> <<>>, coupon |-> <<>>, count |-> 0, err |-> "none"]

(***************************************************************************)
(* The store.  coupons is the coupons table in primary-key order; ledger   *)
(* is the coupon_usages table, a bag of rows (the row's own uuid and its   *)
(* timestamps, which no query reads, are left out).                        *)
(***************************************************************************)
Users == {"u1", "u2"}
Orders == {"o1"}

CouponUsage(couponID, userID, orderID) ==
    [CouponID |-> couponID, UserID |-> userID, OrderID |-> orderID]

\* rows that earlier runs of the service left in the coupons table; the third
\* was deactivated since (is_active is a column no code of the service clears)
SeedCoupons ==
    << Coupon(1, "ONCE50", 2, OneTime, FixedDiscount, 50, 0, 1, NoWindow, TRUE, <<>>, <<>>),
       Coupon(2, "SAVE20", 3, MultiUse, PercentageDiscount, 20, 100, 2, NoWindow, TRUE,
              <<Amoxicillin>>, <<Painkiller>>),
       Coupon(3, "OLD10", 3, OneTime, FixedDiscount, 10, 0, 1, NoWindow, FALSE, <<>>, <<>>) >>

\* what the admin endpoint is asked to create (ID and IsActive are set by
\* the service)
CreateInputs ==
    { Coupon(0, "NIGHT5", 3, TimeBased, FixedDiscount, 5, 0, 1, <<TimeWindow(1, 2)>>, FALSE, <<>>, <<>>),
      Coupon(0, "ONCE50", 3, MultiUse, FixedDiscount, 70, 0, 3, NoWindow, FALSE, <<>>, <<>>) }

Codes == {"ONCE50", "SAVE20", "OLD10", "NIGHT5", "save20"}
Carts == {<<>>, <<VitaminC>>, <<Paracetamol, Amoxicillin>>}
CartTotals == {50, 100}

(***************************************************************************)
(* repository: the queries                                                 *)
(***************************************************************************)
\* Create: the unique index on code refuses a second row with the code
Create(coupon) ==
    IF \E i \in 1..Len(coupons) : coupons[i].Code = coupon.Code
    THEN "duplicate key value violates unique constraint"
    ELSE "nil"

\* GetByCode: the active row with the code, or nil
GetByCode_AnyRow(code) ==
    IF \E i \in 1..Len(coupons) : coupons[i].Code = code
    THEN <<coupons[CHOOSE i \in 1..Len(coupons) : coupons[i].Code = code]>>
    ELSE <<>>

GetByCode(code) ==
    IF \E i \in 1..Len(coupons) : coupons[i].Code = code /\ coupons[i].IsActive
    THEN <<coupons[CHOOSE i \in 1..Len(coupons) :
                       coupons[i].Code = code /\ coupons[i].IsActive]>>
    ELSE <<>>

\* GetUserCouponUsage, and the count query of RecordCouponUsage
Count(rows, couponID, userID) ==
    LET S == {r \in DOMAIN rows : r.CouponID = couponID /\ r.UserID = userID}
    IN BagCardinality([r \in S |-> rows[r]])

GetUserCouponUsage(couponID, userID) == Count(ledger, couponID, userID)

\* the rows the query of GetApplicableCoupons selects
CandidateRow_NoMinimum(c, orderTotal) ==
    c.IsActive /\ c.ExpiryDate > now

CandidateRow(c, orderTotal) ==
    c.IsActive /\ c.ExpiryDate > now /\ c.MinOrderValue <= orderTotal

RECURSIVE FilterApplicable(_, _, _)
FilterApplicable(rows, cartItems, orderTotal) ==
    IF rows = <<>> THEN <<>>
    ELSE LET rest == FilterApplicable(Tail(rows), cartItems, orderTotal)
         IN IF CandidateRow(Head(rows), orderTotal)
               /\ isApplicableToCoupon_repository(Head(rows), cartItems)
            THEN <<Head(rows)>> \o rest
            ELSE rest

\* RecordCouponUsage, first query: the active row with the ID, or nil
FetchActive_AnyRow(couponID) ==
    IF \E i \in 1..Len(coupons) : coupons[i].ID = couponID
    THEN <<coupons[CHOOSE i \in 1..Len(coupons) : coupons[i].ID = couponID]>>
    ELSE <<>>

FetchActive(couponID) ==
    IF \E i \in 1..Len(coupons) : coupons[i].ID = couponID /\ coupons[i].IsActive
    THEN <<coupons[CHOOSE i \in 1..Len(coupons) :
                       coupons[i].ID = couponID /\ coupons[i].IsActive]>>
    ELSE <<>>

\* RecordCouponUsage, the two usage checks on the count the transaction read
UsageError_OffByOne(coupon, count) ==
    IF coupon.UsageType = OneTime /\ count > 1 THEN "one-time coupon already used"
    ELSE IF coupon.UsageType = MultiUse /\ count > coupon.MaxUsagePerUser
         THEN "coupon usage limit exceeded"
    ELSE "nil"

UsageError(coupon, count) ==
    IF coupon.UsageType = OneTime /\ count > 0 THEN "one-time coupon already used"
    ELSE IF coupon.UsageType = MultiUse /\ count >= coupon.MaxUsagePerUser
         THEN "coupon usage limit exceeded"
    ELSE "nil"

(***************************************************************************)
(* service: what ValidateCoupon returns                                    *)
(***************************************************************************)
Declined(message) ==
    [IsValid |-> FALSE, ItemsDiscount |-> FZero, ChargesDiscount |-> FZero,
     Message |-> message, err |-> "nil"]

ValidateCouponOutput(input) ==
    LET found == GetByCode(input.Code) IN
    IF found = <<>> THEN Declined("coupon not found")
    ELSE LET coupon == found[1]
             usageCount == GetUserCouponUsage(coupon.ID, input.UserID)
         IN IF ~IsValid(coupon, input.OrderTotal, input.Timestamp)
            THEN Declined("coupon is not valid for this order")
            ELSE IF ~isApplicableToCoupon_service(coupon, input.CartItems)
            THEN Declined("coupon is not applicable to any items in cart")
            ELSE IF coupon.UsageType = OneTime /\ usageCount > 0
            THEN Declined("one-time coupon already used")
            ELSE IF coupon.UsageType = MultiUse /\ usageCount >= coupon.MaxUsagePerUser
            THEN Declined("coupon usage limit exceeded")
            ELSE [IsValid |-> TRUE,
                  ItemsDiscount |-> CalculateDiscount(coupon, input.OrderTotal),
                  ChargesDiscount |-> FZero,
                  Message |-> "coupon applied successfully", err |-> "nil"]

(***************************************************************************)
(* SpecSeq: the service's operations, one after the other.  A request is   *)
(* served as a whole; last holds it and its response until the response is *)
(* taken (Return).  The clock advances between requests.                   *)
(***************************************************************************)
InitSeq ==
    /\ coupons = SeedCoupons
    /\ ledger = EmptyBag
    /\ now = 0
    /\ tx = [p \in Procs |-> Idle]
    /\ last = NoOp

CreateCoupon(input) ==
    LET coupon == [input EXCEPT !.ID = Len(coupons) + 1, !.IsActive = TRUE]
        err == Create(coupon)
    IN /\ last = NoOp
       /\ Len(coupons) < MaxCoupons
       /\ coupons' = IF err = "nil" THEN Append(coupons, coupon) ELSE coupons
       /\ last' = [op |-> "CreateCoupon", arg |-> input, out |-> [err |-> err]]
       /\ UNCHANGED <<ledger, now, tx>>

ValidateCoupon_Recording(code, cartItems, orderTotal, userID) ==
    LET input == [Code |-> code, CartItems |-> cartItems, OrderTotal |-> orderTotal,
                  UserID |-> userID, Timestamp |-> now]
        out == ValidateCouponOutput(input)
    IN /\ last = NoOp
       /\ last' = [op |-> "ValidateCoupon", arg |-> input, out |-> out]
       /\ ledger' = IF out.IsValid /\ BagCardinality(ledger) < MaxLedger
                    THEN ledger (+) SetToBag({CouponUsage(GetByCode(code)[1].ID, userID, "o1")})
                    ELSE ledger
       /\ UNCHANGED <<coupons, now, tx>>

\* the handler stamps the request with time.Now()
ValidateCoupon(code, cartItems, orderTotal, userID) ==
    LET input == [Code |-> code, CartItems |-> cartItems, OrderTotal |-> orderTotal,
                  UserID |-> userID, Timestamp |-> now]
    IN /\ last = NoOp
       /\ last' = [op |-> "ValidateCoupon", arg |-> input,
                   out |-> ValidateCouponOutput(input)]
       /\ UNCHANGED <<coupons, ledger, now, tx>>

GetApplicableCoupons(cartItems, orderTotal) ==
    /\ last = NoOp
    /\ last' = [op |-> "GetApplicableCoupons",
                arg |-> [CartItems |-> cartItems, OrderTotal |-> orderTotal],
                out |-> FilterApplicable(coupons, cartItems, orderTotal)]
    /\ UNCHANGED <<coupons, ledger, now, tx>>

\* the whole transaction, nothing running beside it
RecordCouponUsage(couponID, userID, orderID) ==
    LET usage == CouponUsage(couponID, userID, orderID)
        found == FetchActive(couponID)
        err == IF found = <<>> THEN "record not found"
               ELSE UsageError(found[1], Count(ledger, couponID, userID))
    IN /\ last = NoOp
       /\ err = "nil" => BagCardinality(ledger) < MaxLedger
       /\ ledger' = IF err = "nil" THEN ledger (+) SetToBag({usage}) ELSE ledger
       /\ last' = [op |-> "RecordCouponUsage", arg |-> usage, out |-> [err |-> err]]
       /\ UNCHANGED <<coupons, now, tx>>

Tick ==
    /\ last = NoOp
    /\ now < MaxTime
    /\ now' = now + 1
    /\ UNCHANGED <<coupons, ledger, last, tx>>

Return ==
    /\ last # NoOp
    /\ last' = NoOp
    /\ UNCHANGED <<coupons, ledger, now, tx>>

NextSeq ==
    \/ \E input \in CreateInputs : CreateCoupon(input)
    \/ \E code \in Codes, cartItems \in Carts, orderTotal \in CartTotals, userID \in Users :
          ValidateCoupon(code, cartItems, orderTotal, userID)
    \/ \E cartItems \in Carts, orderTotal \in CartTotals :
          GetApplicableCoupons(cartItems, orderTotal)
    \/ \E couponID \in 1..MaxCoupons, userID \in Users, orderID \in Orders :
          RecordCouponUsage(couponID, userID, orderID)
    \/ Tick
    \/ Return

SpecSeq == InitSeq /\ [][NextSeq]_vars

(***************************************************************************)
(* SpecFn: the pure functions applied to inputs drawn from bounded sets.   *)
(* last holds the call made and what it returned, until the caller takes   *)
(* the result (Return) and makes the next call.                            *)
(***************************************************************************)
MinOrderValues == {0, 100}
OrderTotals == {0, 3, 7, 40, 99, 100, 700}
DiscountValues == (1..25) \cup {33, 50, 100, 150}

InitFn ==
    /\ coupons = <<>>
    /\ ledger = <<>>
    /\ now = 0
    /\ tx = [p \in Procs |-> Idle]
    /\ last = NoOp

CallIsValid ==
    /\ last = NoOp
    /\ \E active \in BOOLEAN, expiry \in Times, minOrder \in MinOrderValues,
          window \in Windows, orderTotal \in {0, 99, 100, 700}, currentTime \in Times :
           LET c == Coupon(1, "PROBE", expiry, MultiUse, FixedDiscount, 50, minOrder, 1,
                           window, active, <<>>, <<>>)
           IN /\ last' = [op |-> "IsValid",
                          arg |-> [coupon |-> c, orderTotal |-> orderTotal,
                                   currentTime |-> currentTime],
                          out |-> IsValid(c, orderTotal, currentTime)]
              /\ UNCHANGED <<coupons, ledger, now, tx>>

CallCalculateDiscount ==
    /\ last = NoOp
    /\ \E discountType \in DiscountTypes, discountValue \in DiscountValues,
          orderTotal \in OrderTotals :
           LET c == Coupon(1, "PROBE", MaxTime, MultiUse, discountType, discountValue, 0, 1,
                           NoWindow, TRUE, <<>>, <<>>)
           IN /\ last' = [op |-> "CalculateDiscount",
                          arg |-> [coupon |-> c, orderTotal |-> orderTotal],
                          out |-> CalculateDiscount(c, orderTotal)]
              /\ UNCHANGED <<coupons, ledger, now, tx>>

CallIsApplicableToCoupon ==
    /\ last = NoOp
    /\ \E medicines \in SeqsUpTo(Medicines, MaxList),
          categories \in SeqsUpTo(Categories, MaxList),
          cartItems \in SeqsUpTo(Medicines, MaxList) :
           LET c == Coupon(1, "PROBE", MaxTime, MultiUse, FixedDiscount, 50, 0, 1,
                           NoWindow, TRUE, medicines, categories)
           IN /\ last' = [op |-> "isApplicableToCoupon",
                          arg |-> [coupon |-> c, cartItems |-> cartItems],
                          out |-> [service |-> isApplicableToCoupon_service(c, cartItems),
                                   repository |-> isApplicableToCoupon_repository(c, cartItems)]]
              /\ UNCHANGED <<coupons, ledger, now, tx>>

NextFn == CallIsValid \/ CallCalculateDiscount \/ CallIsApplicableToCoupon \/ Return

SpecFn == InitFn /\ [][NextFn]_vars

(***************************************************************************)
(* Claims about the pure functions (SpecFn).                               *)
(***************************************************************************)
Range(s) == {s[i] : i \in 1..Len(s)}

\* C7: IsValid(orderTotal, now) is true if and only if the coupon is active,
\* now is not after the expiry date (now = expiry is still valid), orderTotal
\* is at least MinOrderValue and, when a time window is set, now lies in it
\* (both ends included); so it is false for every inactive coupon and for
\* every orderTotal below MinOrderValue.
C7_IsValidIff ==
    last.op = "IsValid" =>
        LET c == last.arg.coupon
            t == last.arg.currentTime
            total == last.arg.orderTotal
        IN /\ last.out <=>
                /\ c.IsActive
                /\ t <= c.ExpiryDate
                /\ total >= c.MinOrderValue
                /\ Len(c.ValidTimeWindow) = 1 =>
                      /\ c.ValidTimeWindow[1].StartTime <= t
                      /\ t <= c.ValidTimeWindow[1].EndTime
           /\ ~c.IsActive => last.out = FALSE
           /\ total < c.MinOrderValue => last.out = FALSE

\* a coupon found valid exactly at its expiry instant, at the end of its
\* window, for an order total equal to the minimum
C7_Witness ==
    /\ last.op = "IsValid"
    /\ last.out = TRUE
    /\ last.arg.currentTime = last.arg.coupon.ExpiryDate
    /\ last.arg.coupon.ValidTimeWindow # NoWindow
    /\ last.arg.coupon.ValidTimeWindow[1].EndTime = last.arg.currentTime
    /\ last.arg.coupon.MinOrderValue = last.arg.orderTotal
    /\ last.arg.orderTotal > 0

\* C8: isApplicableToCoupon is true when both restriction lists are empty,
\* and otherwise true if and only if some cart item's ID is the ID of an
\* eligible medicine or some cart item's category string is the name of an
\* eligible category; the service's copy and the repository's copy agree.
C8_ApplicableIff ==
    last.op = "isApplicableToCoupon" =>
        LET c == last.arg.coupon
            cartIDs == {m.ID : m \in Range(last.arg.cartItems)}
            cartCategories == {m.Category : m \in Range(last.arg.cartItems)}
            eligibleIDs == {m.ID : m \in Range(c.ApplicableMedicines)}
            eligibleNames == {k.Name : k \in Range(c.ApplicableCategories)}
            expected ==
                IF c.ApplicableMedicines = <<>> /\ c.ApplicableCategories = <<>>
                THEN TRUE
                ELSE \/ cartIDs \cap eligibleIDs # {}
                     \/ cartCategories \cap eligibleNames # {}
        IN /\ last.out.service = expected
           /\ last.out.repository = expected

\* a restricted coupon matched through a category name only, and (second
\* disjunct) a restricted coupon rejected for a cart that is not empty
C8_Witness ==
    /\ last.op = "isApplicableToCoupon"
    /\ last.arg.coupon.ApplicableMedicines # <<>>
    /\ last.arg.coupon.ApplicableCategories # <<>>
    /\ last.arg.cartItems # <<>>
    /\ last.out.service = TRUE
    /\ \A i \in 1..Len(last.arg.cartItems) :
          \A j \in 1..Len(last.arg.coupon.ApplicableMedicines) :
              last.arg.cartItems[i].ID # last.arg.coupon.ApplicableMedicines[j].ID

Init ==
    /\ coupons = SeedCoupons
    /\ ledger = EmptyBag
    /\ now = 0
    /\ tx = [p \in Procs |-> Idle]
    /\ last = NoOp

\* service.RecordCouponUsage: builds the usage row and opens the transaction
Transaction(p, couponID, userID, orderID) ==
    /\ tx[p].pc = "idle"
    /\ tx' = [tx EXCEPT ![p] = [Idle EXCEPT !.pc = "fetch",
                                            !.usage = <<CouponUsage(couponID, userID, orderID)>>]]
    /\ UNCHANGED <<coupons, ledger, now, last>>

\* the fetch of the active coupon row
TxFirst(p) ==
    /\ tx[p].pc = "fetch"
    /\ LET found == FetchActive(tx[p].usage[1].CouponID)
       IN tx' = [tx EXCEPT ![p] =
                    IF found = <<>>
                    THEN [@ EXCEPT !.pc = "done", !.err = "record not found"]
                    ELSE [@ EXCEPT !.coupon = found,
                                   !.pc = IF found[1].UsageType \in {OneTime, MultiUse}
                                          THEN "count" ELSE "insert"]]
    /\ UNCHANGED <<coupons, ledger, now, last>>

\* the count of the user's usage rows of the coupon, and the check on it
TxCount(p) ==
    /\ tx[p].pc = "count"
    /\ LET count == Count(ledger, tx[p].usage[1].CouponID, tx[p].usage[1].UserID)
           err == UsageError(tx[p].coupon[1], count)
       IN tx' = [tx EXCEPT ![p] =
                    IF err = "nil"
                    THEN [@ EXCEPT !.count = count, !.pc = "insert"]
                    ELSE [@ EXCEPT !.count = count, !.pc = "done", !.err = err]]
    /\ UNCHANGED <<coupons, ledger, now, last>>

\* the insert of the usage row, and the commit that shows it to the others
TxCreate(p) ==
    /\ tx[p].pc = "insert"
    /\ BagCardinality(ledger) < MaxLedger
    /\ ledger' = ledger (+) SetToBag({tx[p].usage[1]})
    /\ tx' = [tx EXCEPT ![p] = [@ EXCEPT !.pc = "done", !.err = "nil"]]
    /\ UNCHANGED <<coupons, now, last>>

\* the caller takes the call's error
TxReturn(p) ==
    /\ tx[p].pc = "done"
    /\ tx' = [tx EXCEPT ![p] = Idle]
    /\ UNCHANGED <<coupons, ledger, now, last>>

Next ==
    \/ \E p \in Procs, couponID \in 1..Len(coupons), userID \in Users, orderID \in Orders :
          Transaction(p, couponID, userID, orderID)
    \/ \E p \in Procs : TxFirst(p)
    \/ \E p \in Procs : TxCount(p)
    \/ \E p \in Procs : TxCreate(p)
    \/ \E p \in Procs : TxReturn(p)

Spec == Init /\ [][Next]_vars

\* C1: whatever the interleaving of the fetches, counts and inserts of
\* concurrent RecordCouponUsage calls for a one-time coupon and one user,
\* the ledger never holds more than one record of the pair, and at most one
\* of the calls that have ended has succeeded (the others ended with
\* "one-time coupon already used").
C1_AsClaimed ==
    \A c \in Range(coupons), u \in Users :
        c.UsageType = OneTime =>
            LET ended == {p \in Procs : /\ tx[p].pc = "done"
                                        /\ tx[p].usage[1].CouponID = c.ID
                                        /\ tx[p].usage[1].UserID = u}
            IN /\ Count(ledger, c.ID, u) <= 1
               /\ Cardinality({p \in ended : tx[p].err = "nil"}) <= 1
               /\ c.IsActive =>
                     \A p \in ended : tx[p].err \in {"nil", "one-time coupon already used"}

\* C2: in every state reached by concurrent RecordCouponUsage calls, the
\* usage records of a user for a multi-use coupon number at most the
\* coupon's MaxUsagePerUser.
C2_AsClaimed ==
    \A c \in Range(coupons), u \in Users :
        c.UsageType = MultiUse => Count(ledger, c.ID, u) <= c.MaxUsagePerUser

(***************************************************************************)
(* Claims about the operations served one after the other (SpecSeq).  A    *)
(* step from last = NoOp to a last' that holds an operation is that        *)
(* operation, served on the unprimed state.                                *)
(***************************************************************************)
\* the active row with the ID, as a set of at most one row
ActiveRows(couponID) ==
    {c \in Range(coupons) : c.ID = couponID /\ c.IsActive}

Recorded(usageType) ==
    /\ last = NoOp
    /\ last'.op = "RecordCouponUsage"
    /\ \E c \in ActiveRows(last'.arg.CouponID) : c.UsageType = usageType

\* C3: served one after the other, a RecordCouponUsage call for an active
\* one-time coupon and a user with no usage record of it succeeds and adds
\* exactly one usage record, the call's; every later call for the pair fails
\* with "one-time coupon already used" and adds no record.
C3_OneTimeSequential ==
    [][Recorded(OneTime) =>
          IF Count(ledger, last'.arg.CouponID, last'.arg.UserID) = 0
          THEN /\ last'.out.err = "nil"
               /\ ledger' = ledger (+) SetToBag({last'.arg})
          ELSE /\ last'.out.err = "one-time coupon already used"
               /\ ledger' = ledger]_vars

\* the second call for a pair has just failed, the first call's record is
\* the only one
C3_Witness ==
    /\ last.op = "RecordCouponUsage"
    /\ last.out.err = "one-time coupon already used"
    /\ Count(ledger, last.arg.CouponID, last.arg.UserID) = 1

\* C4: served one after the other, for an active multi-use coupon with
\* MaxUsagePerUser = m the calls of a user who has fewer than m usage records
\* succeed and add one record each (the first m calls), and the call after
\* them fails with "coupon usage limit exceeded" and adds no record; the
\* outcome is decided by the user's own records only, whatever records other
\* users of the coupon have.
C4_MultiUseSequential ==
    [][Recorded(MultiUse) =>
          \A c \in ActiveRows(last'.arg.CouponID) :
              IF Count(ledger, last'.arg.CouponID, last'.arg.UserID) < c.MaxUsagePerUser
              THEN /\ last'.out.err = "nil"
                   /\ ledger' = ledger (+) SetToBag({last'.arg})
              ELSE /\ last'.out.err = "coupon usage limit exceeded"
                   /\ ledger' = ledger]_vars

\* the third call of a user has just failed on a coupon with m = 2, which
\* another user has used once
C4_Witness ==
    /\ last.op = "RecordCouponUsage"
    /\ last.out.err = "coupon usage limit exceeded"
    /\ \E c \in ActiveRows(last.arg.CouponID) :
          /\ c.MaxUsagePerUser = 2
          /\ Count(ledger, c.ID, last.arg.UserID) = 2
          /\ \E other \in Users \ {last.arg.UserID} : Count(ledger, c.ID, other) = 1

\* C5: ValidateCoupon changes neither the usage ledger nor the coupon store,
\* whatever the input and the outcome, so that the same validation made
\* again right after it returns the same result and the same discount.
C5_ValidateReadOnly ==
    /\ [][(last = NoOp /\ last'.op = "ValidateCoupon") =>
             ledger' = ledger /\ coupons' = coupons]_vars
    /\ [](last.op = "ValidateCoupon" => ValidateCouponOutput(last.arg) = last.out)

\* a multi-use coupon found valid, with a discount of 20% of 100, for a user
\* who has redeemed it once already
C5_Witness ==
    /\ last.op = "ValidateCoupon"
    /\ last.out.IsValid
    /\ last.out.ItemsDiscount = FNat(20)
    /\ \E c \in Range(coupons) :
          /\ c.Code = last.arg.Code
          /\ c.UsageType = MultiUse
          /\ Count(ledger, c.ID, last.arg.UserID) = 1

\* C6: ValidateCoupon reports the first check that fails, in the order
\* lookup, validity predicate, cart applicability, usage limit: "coupon not
\* found" when no active coupon has exactly that code, then "coupon is not
\* valid for this order", then "coupon is not applicable to any items in
\* cart", then "one-time coupon already used" or "coupon usage limit
\* exceeded"; a decline is a result with IsValid = FALSE, no discount and no
\* error, and IsValid = TRUE is returned only when the four checks pass.
C6_FirstFailingCheck ==
    last.op = "ValidateCoupon" =>
        LET in == last.arg
            rows == {c \in Range(coupons) : c.Code = in.Code /\ c.IsActive}
            found == rows # {}
            valid(c) ==
                /\ c.IsActive
                /\ in.Timestamp <= c.ExpiryDate
                /\ in.OrderTotal >= c.MinOrderValue
                /\ c.ValidTimeWindow # NoWindow =>
                      /\ c.ValidTimeWindow[1].StartTime <= in.Timestamp
                      /\ in.Timestamp <= c.ValidTimeWindow[1].EndTime
            applicable(c) ==
                \/ c.ApplicableMedicines = <<>> /\ c.ApplicableCategories = <<>>
                \/ \E item \in Range(in.CartItems) :
                      \/ \E m \in Range(c.ApplicableMedicines) : item.ID = m.ID
                      \/ \E k \in Range(c.ApplicableCategories) : item.Category = k.Name
            used(c) == Count(ledger, c.ID, in.UserID)
            withinLimit(c) ==
                /\ c.UsageType = OneTime => used(c) = 0
                /\ c.UsageType = MultiUse => used(c) < c.MaxUsagePerUser
            message ==
                IF ~found THEN "coupon not found"
                ELSE IF \E c \in rows : ~valid(c) THEN "coupon is not valid for this order"
                ELSE IF \E c \in rows : ~applicable(c)
                     THEN "coupon is not applicable to any items in cart"
                ELSE IF \E c \in rows : c.UsageType = OneTime /\ ~withinLimit(c)
                     THEN "one-time coupon already used"
                ELSE IF \E c \in rows : c.UsageType = MultiUse /\ ~withinLimit(c)
                     THEN "coupon usage limit exceeded"
                ELSE "coupon applied successfully"
        IN /\ last.out.Message = message
           /\ last.out.err = "nil"
           /\ last.out.IsValid <=>
                 /\ found
                 /\ \A c \in rows : valid(c) /\ applicable(c) /\ withinLimit(c)
           /\ ~last.out.IsValid => last.out.ItemsDiscount = FZero

\* a validation declined as not valid for the order (the total is below the
\* minimum) although the cart does not match the coupon and the user has
\* exhausted it too: the earlier check is the one reported
C6_Witness ==
    /\ last.op = "ValidateCoupon"
    /\ last.out.Message = "coupon is not valid for this order"
    /\ \E c \in Range(coupons) :
          /\ c.Code = last.arg.Code
          /\ ~isApplicableToCoupon_service(c, last.arg.CartItems)
          /\ Count(ledger, c.ID, last.arg.UserID) = c.MaxUsagePerUser

AdminInputs ==
    CreateInputs \cup
    { Coupon(0, "FLASH", 1, TimeBased, PercentageDiscount, 10, 0, 1, NoWindow, FALSE, <<>>, <<>>) }

AdminCodes == {"ONCE50", "SAVE20", "NIGHT5", "FLASH"}
AdminCarts == {<<Paracetamol, Amoxicillin>>}
AdminTotals == {100}
AdminUsers == {"u1"}

Deactivate(couponID) ==
    /\ last = NoOp
    /\ couponID \in 1..Len(coupons)
    /\ coupons[couponID].IsActive
    /\ coupons' = [coupons EXCEPT ![couponID].IsActive = FALSE]
    /\ UNCHANGED <<ledger, now, last, tx>>

NextAdmin ==
    \/ \E input \in AdminInputs : CreateCoupon(input)
    \/ \E couponID \in 1..MaxCoupons : Deactivate(couponID)
    \/ \E code \in AdminCodes, cartItems \in AdminCarts, orderTotal \in AdminTotals,
          userID \in AdminUsers :
          ValidateCoupon(code, cartItems, orderTotal, userID)
    \/ \E couponID \in 1..MaxCoupons, userID \in AdminUsers, orderID \in Orders :
          RecordCouponUsage(couponID, userID, orderID)
    \/ Tick
    \/ Return

SpecAdmin == InitSeq /\ [][NextAdmin]_vars

\* C11: a RecordCouponUsage call for a coupon ID that no row has, or whose
\* row is inactive when the call is served (deactivated after a validation
\* or a redemption of it succeeded included), returns an error and leaves
\* the usage ledger as it was.
C11_InactiveNotRecorded ==
    [][(/\ last = NoOp
        /\ last'.op = "RecordCouponUsage"
        /\ ActiveRows(last'.arg.CouponID) = {}) =>
          /\ last'.out.err # "nil"
          /\ ledger' = ledger]_vars

\* a call has just failed on a coupon that the user redeemed once while it
\* was active, and that was deactivated since
C11_Witness ==
    /\ last.op = "RecordCouponUsage"
    /\ last.out.err = "record not found"
    /\ \E c \in Range(coupons) :
          /\ c.ID = last.arg.CouponID
          /\ ~c.IsActive
          /\ c.MaxUsagePerUser = 2
          /\ Count(ledger, c.ID, last.arg.UserID) = 1

\* C12: ValidateCoupon returns IsValid = TRUE for a coupon of usage type
\* time_based only when the coupon has a time window and the timestamp of
\* the validation lies inside it (start <= timestamp <= end).
C12_AsClaimed ==
    last.op = "ValidateCoupon" =>
        \A c \in Range(coupons) :
            (/\ c.Code = last.arg.Code
             /\ c.IsActive
             /\ c.UsageType = TimeBased
             /\ last.out.IsValid) =>
                /\ c.ValidTimeWindow # NoWindow
                /\ c.ValidTimeWindow[1].StartTime <= last.arg.Timestamp
                /\ last.arg.Timestamp <= c.ValidTimeWindow[1].EndTime

\* the validations of a coupon for a user, at the instants up to now
ValidationsOf(c, userID) ==
    {[Code |-> c.Code, CartItems |-> cartItems, OrderTotal |-> orderTotal,
      UserID |-> userID, Timestamp |-> t] :
        cartItems \in Carts, orderTotal \in CartTotals, t \in 0..now}

\* C13: a RecordCouponUsage call for a pair (coupon, user) agrees with the
\* validation of the pair that came before it with nothing done to the
\* coupon or the pair in between: it succeeds if the validation returned
\* IsValid = TRUE, and it fails with "one-time coupon already used" or
\* "coupon usage limit exceeded" if the validation declined with that
\* message.
C13_ValidateThenRecord ==
    [][(last = NoOp /\ last'.op = "RecordCouponUsage") =>
          \A c \in ActiveRows(last'.arg.CouponID) :
              \A input \in ValidationsOf(c, last'.arg.UserID) :
                  LET v == ValidateCouponOutput(input)
                  IN /\ v.IsValid => last'.out.err = "nil"
                     /\ v.Message \in {"one-time coupon already used",
                                       "coupon usage limit exceeded"} =>
                           last'.out.err = v.Message]_vars

\* a call has just failed on the usage limit, for a pair whose validation
\* is declined with the same message
C13_Witness ==
    /\ last.op = "RecordCouponUsage"
    /\ last.out.err = "coupon usage limit exceeded"
    /\ \E c \in ActiveRows(last.arg.CouponID) :
          \E input \in ValidationsOf(c, last.arg.UserID) :
              /\ input.Timestamp = now
              /\ ValidateCouponOutput(input).Message = "coupon usage limit exceeded"

\* C14: a stored coupon is in the result of GetApplicableCoupons for a cart
\* and an order total exactly when, at the same instant, ValidateCoupon on
\* its code finds it and passes the validity predicate (IsValid, with the
\* expiry boundary and the time window) and the applicability check for the
\* same cart and total.
C14_AsClaimed ==
    last.op = "GetApplicableCoupons" =>
        \A c \in Range(coupons) :
            c \in Range(last.out) <=>
                /\ GetByCode(c.Code) = <<c>>
                /\ IsValid(c, last.arg.OrderTotal, now)
                /\ isApplicableToCoupon_service(c, last.arg.CartItems)

=============================================================================
